---- MODULE Spec2Model ----
(***************************************************************************)
(* Model of src/download_and_process.py: the manifest is grouped by        *)
(* ytb_id, the pending groups are run by a ThreadPoolExecutor, each group  *)
(* goes through download -> process_ffmpeg (per clip) -> move_to_dropbox   *)
(* -> cleanup_files -> mark_completed, and progress.txt makes a later run  *)
(* skip the groups that completed.                                         *)
(***************************************************************************)
EXTENDS Integers, Sequences, FiniteSets, TLC

\* ---- bounds of the model ------------------------------------------------
NumRecords == 3      \* records (clips) in the manifest of Spec
NumKeys == 2         \* distinct ytb_id values in the manifest of Spec
PoolUnits == 3       \* groups (of one clip each) in the manifest of SpecPool
MaxWorkers == 2      \* CELEBV_MAX_WORKERS
MaxRuns == 2         \* runs of the script over the same disk
MaxFaults == 2       \* external commands and file operations that go wrong
MaxCalls == 3        \* calls of mark_completed made on one tracker
GridSteps == 4       \* bbox coordinates are the multiples of 1/GridSteps
MaxSide == 3         \* frame heights and widths are 4, 8, .. 4 * MaxSide
MaxCs == 120         \* times are 0 .. MaxCs hundredths of a second
NumTars == 2         \* tar files merge_video goes through (68 in the script)
MaxMp4 == 2          \* .mp4 files extracted from one tar

\* ---- data ----------------------------------------------------------------
Chars == <<"a", "b", "c", "d", "e", "f">>
Whitespace == {" ", "\n"}
NL == "\n"

\* a ytb_id is a string, modelled as a sequence of characters
KeyOf(n) == <<"y", Chars[n]>>

\* the fields load_and_group_data reads from the value of a record
RequiredFields == {"ytb_id", "duration", "bbox"}

\* a manifest of nrec records over nkeys ytb_ids: record k is the clip with
\* save_name k; has = the fields present in the value of the record
ManifestOf(nrec, nkeys) ==
  [k \in 1..nrec |->
     [save_name |-> k, ytb_id |-> KeyOf(((k - 1) % nkeys) + 1),
      has |-> RequiredFields]]

Max(a, b) == IF a > b THEN a ELSE b
Min(a, b) == IF a < b THEN a ELSE b
ManifestKeys == {KeyOf(n) : n \in 1..NumKeys}
Units == {KeyOf(n) : n \in 1..Max(NumKeys, PoolUnits)}

Range(s) == {s[j] : j \in 1..Len(s)}

\* faulty variant: a record that lacks a field is taken as it is
KeyError_ignored(val) == FALSE

\* val['ytb_id'], val['duration'][...], val['bbox'][...] raise KeyError when
\* the field is not there
KeyError(val) == RequiredFields \ val.has # {}

\* faulty variant: the clip is put in front of the list
append_front(list, item) == <<item>> \o list

\* list.append
append(list, item) == Append(list, item)

NoData == [keys |-> <<>>, vals |-> [k \in {} |-> <<>>], err |-> FALSE]

\* load_and_group_data: a dict in insertion order, keys = first-seen ytb_ids,
\* values = the clips of that ytb_id in manifest order; err = a KeyError left
\* the loop
RECURSIVE GroupLoop(_, _, _)
GroupLoop(recs, n, acc) ==
  IF n > Len(recs) THEN acc
  ELSE IF KeyError(recs[n]) THEN [acc EXCEPT !.err = TRUE]
  ELSE LET ytb_id == recs[n].ytb_id
           item == [save_name |-> recs[n].save_name]
       IN IF ytb_id \in Range(acc.keys)
          THEN GroupLoop(recs, n + 1,
                 [acc EXCEPT !.vals[ytb_id] = append(@, item)])
          ELSE GroupLoop(recs, n + 1,
                 [keys |-> Append(acc.keys, ytb_id),
                  vals |-> [k \in Range(acc.keys) \cup {ytb_id} |->
                              IF k = ytb_id THEN append(<<>>, item)
                              ELSE acc.vals[k]],
                  err |-> FALSE])

load_and_group_data(recs) == GroupLoop(recs, 1, NoData)

\* str.strip()
RECURSIVE lstrip(_)
lstrip(s) ==
  IF s = <<>> THEN s
  ELSE IF Head(s) \in Whitespace THEN lstrip(Tail(s)) ELSE s

RECURSIVE rstrip(_)
rstrip(s) ==
  IF s = <<>> THEN s
  ELSE IF s[Len(s)] \in Whitespace THEN rstrip(SubSeq(s, 1, Len(s) - 1)) ELSE s

strip(s) == lstrip(rstrip(s))

\* ThreadSafeProgress.load_progress: the stripped non-empty lines of the file
load_progress(lines) ==
  {strip(lines[j]) : j \in {i \in 1..Len(lines) : strip(lines[i]) # <<>>}}

\* ---- state -----------------------------------------------------------------
VARIABLES
  \* on disk, kept from one run to the next
  manifest,           \* the records of the JSON manifest, in file order
  progress_file,      \* the lines of progress.txt, each ending in a newline
  raw_files,          \* the ytb_ids whose raw .mp4 exists locally
  local_files,        \* the clips whose processed file exists locally
  run,                \* number of the current run
  faults,             \* how many commands and file operations went wrong
  uploadedInFailed,   \* clips uploaded by the previous run in a group
                      \* that returned after one of its transforms failed
  \* the main thread
  mainPc,             \* "start", "submit", "collect", "done", "fatal",
                      \* "stopping", "interrupted"
  grouped_data,       \* what load_and_group_data returned
  completed_ytb_ids,  \* ThreadSafeProgress.completed_ytb_ids
  fileAtStart,        \* the lines of progress.txt when this run started
  pending_ytb_ids,    \* the groups to process, in dict order
  submitted,          \* how many of them were handed to executor.submit
  submitCount,        \* per group, the number of submits
  collected,          \* per group, how often as_completed yielded its future
  successful_count,
  failed_count,
  \* the executor
  queue,              \* work items not yet taken by a worker thread
  worker,             \* per worker thread, the group it runs, or Idle
  lock,               \* ThreadSafeProgress.lock: its holder, or Idle
  result,             \* per group, the state of its future
  \* process_ytb_id, per group
  pc,                 \* the statement the call is at
  dl,                 \* what the download call met: "none" (not called),
                      \* "exists" (file already there), "ok", "cmdfail"
                      \* (yt-dlp exited non-zero), "absent" (exit 0, no
                      \* file), "raised"
  processed_files,
  moved_files,
  all_success,
  trLog,              \* the process_ffmpeg calls: <<clip, succeeded>>
  upLog,              \* the move_to_dropbox calls on clips: <<clip, succeeded>>
  cleaned,            \* the arguments of the cleanup_files call, and those
                      \* whose os.remove raised
  \* threads that call mark_completed on one tracker
  caller,             \* per thread, the key it marks and where the call is
  calls,              \* number of mark_completed calls made
  normal,             \* the keys for which a call returned normally
  \* process_ffmpeg, the arguments of the ffmpeg command
  bbox,               \* <<top, bottom, left, right>>, in hundredths
  height,             \* frame height in pixels
  width,              \* frame width in pixels
  start_sec,          \* start time, in hundredths of a second
  crop,               \* <<top, bottom, left, right>> of the crop, in half
                      \* pixels (to_square divides by 2)
  ss,                 \* the -ss argument, a string
  \* merge_video.py
  merge_pc,           \* where main() is: "off" (not run), "start", "copy",
                      \* "process", "save", "done", "crashed"
  merge_progress,     \* the lines of the progress.txt of merge_video
  completed_files,    \* the set main() keeps
  remaining_files,    \* the tar names to process, in order
  tar_pos,            \* position of the for loop in remaining_files
  tarLog              \* per tar name, what happened to it in this run

diskVars == <<manifest, progress_file, raw_files, local_files, run, faults,
              uploadedInFailed>>
mainVars == <<mainPc, grouped_data, completed_ytb_ids, fileAtStart,
              pending_ytb_ids, submitted, submitCount, collected,
              successful_count, failed_count>>
poolVars == <<queue, worker, lock, result>>
unitVars == <<pc, dl, processed_files, moved_files, all_success, trLog, upLog,
              cleaned>>
markVars == <<caller, calls, normal>>
ffmpegVars == <<bbox, height, width, start_sec, crop, ss>>
mergeVars == <<merge_pc, merge_progress, completed_files, remaining_files,
               tar_pos, tarLog>>
harnessVars == <<markVars, ffmpegVars, mergeVars>>
vars == <<diskVars, mainVars, poolVars, unitVars, harnessVars>>

Idle == <<>>

\* faulty variant: the pool is created with one thread too many
Workers_oneMore == 1..(MaxWorkers + 1)

\* the worker threads of ThreadPoolExecutor(max_workers=max_workers)
Workers == 1..MaxWorkers
NoCleanup == [called |-> FALSE, raw |-> FALSE, clips |-> {}, failed |-> {}]

total_pending == Len(pending_ytb_ids)
video_data_list(u) == grouped_data.vals[u]

\* the state of a freshly started process
FreshMain ==
  /\ mainPc = "start"
  /\ grouped_data = NoData
  /\ completed_ytb_ids = {}
  /\ fileAtStart = <<>>
  /\ pending_ytb_ids = <<>>
  /\ submitted = 0
  /\ submitCount = [u \in Units |-> 0]
  /\ collected = [u \in Units |-> 0]
  /\ successful_count = 0
  /\ failed_count = 0
  /\ queue = <<>>
  /\ worker = [w \in Workers |-> Idle]
  /\ lock = Idle
  /\ result = [u \in Units |-> "none"]
  /\ pc = [u \in Units |-> "pending"]
  /\ dl = [u \in Units |-> "none"]
  /\ processed_files = [u \in Units |-> <<>>]
  /\ moved_files = [u \in Units |-> <<>>]
  /\ all_success = [u \in Units |-> TRUE]
  /\ trLog = [u \in Units |-> <<>>]
  /\ upLog = [u \in Units |-> <<>>]
  /\ cleaned = [u \in Units |-> NoCleanup]

EmptyDisk ==
  /\ progress_file = <<>>
  /\ raw_files = {}
  /\ local_files = {}
  /\ run = 1
  /\ faults = 0
  /\ uploadedInFailed = {}

NoCall == [key |-> <<>>, at |-> "idle"]

Digit(d) == <<"0", "1", "2", "3", "4", "5", "6", "7", "8", "9">>[d + 1]

RECURSIVE Decimal(_)
Decimal(n) ==
  IF n < 10 THEN <<Digit(n)>> ELSE Append(Decimal(n \div 10), Digit(n % 10))

\* "{:04d}".format(i)
Format04d(i) ==
  IF Len(Decimal(i)) >= 4 THEN Decimal(i)
  ELSE SubSeq(<<"0", "0", "0">>, 1, 4 - Len(Decimal(i))) \o Decimal(i)

\* f"sp_{i:04d}.tar" for i in range(2, 70), cut down to NumTars names
FirstTar == 2
TarName(i) == <<"s", "p", "_">> \o Format04d(i) \o <<".", "t", "a", "r">>
TarNumbers == FirstTar..(FirstTar + NumTars - 1)
tar_files == [j \in 1..NumTars |-> TarName(FirstTar + j - 1)]
Tars == {TarName(i) : i \in TarNumbers}
Mp4s == 1..MaxMp4
NoTarLog ==
  [copied |-> FALSE, extracted |-> FALSE, outcomes |-> <<>>, moved |-> FALSE,
   returned |-> "none"]

\* merge_video is not running
NoMerge ==
  /\ merge_pc = "off"
  /\ merge_progress = <<>>
  /\ completed_files = {}
  /\ remaining_files = <<>>
  /\ tar_pos = 0
  /\ tarLog = [t \in Tars |-> NoTarLog]

\* no thread calls mark_completed from outside the pipeline
NoCallers ==
  /\ caller = [t \in Workers |-> NoCall]
  /\ calls = 0
  /\ normal = {}

\* no ffmpeg command is being built
NoCommand ==
  /\ bbox = <<>>
  /\ height = 0
  /\ width = 0
  /\ start_sec = 0
  /\ crop = <<>>
  /\ ss = <<>>

Init ==
  /\ manifest = ManifestOf(NumRecords, NumKeys)
  /\ EmptyDisk
  /\ FreshMain
  /\ NoCallers
  /\ NoCommand
  /\ NoMerge

InitPool ==
  /\ manifest = ManifestOf(PoolUnits, PoolUnits)
  /\ EmptyDisk
  /\ FreshMain
  /\ NoCallers
  /\ NoCommand
  /\ NoMerge

\* ---- the main thread -------------------------------------------------------
\* ThreadSafeProgress.is_completed
is_completed(completed, ytb_id) == ytb_id \in completed

\* faulty variant: the filter on is_completed is left out
PendingOf_unfiltered(data, completed) == data.keys

\* the groups of the manifest that are not completed, in dict order
PendingOf(data, completed) ==
  SelectSeq(data.keys, LAMBDA u : ~is_completed(completed, u))

\* load the manifest, create the progress tracker, filter the pending groups
\* faulty variant: the executor is entered whatever total_pending is
after_filter_always(total) == "submit"

\* line 384: with nothing pending the else branch (executor and statistics)
\* is skipped
after_filter(total) == IF total = 0 THEN "done" ELSE "submit"

Startup ==
  /\ mainPc = "start"
  /\ IF load_and_group_data(manifest).err
     THEN \* the KeyError leaves load_and_group_data at line 369 and is
          \* caught at line 441, logged as fatal and raised again
          /\ mainPc' = "fatal"
          /\ UNCHANGED <<grouped_data, completed_ytb_ids, fileAtStart,
                         pending_ytb_ids>>
     ELSE /\ grouped_data' = load_and_group_data(manifest)
          /\ completed_ytb_ids' = load_progress(progress_file)
          /\ fileAtStart' = progress_file
          /\ pending_ytb_ids' = PendingOf(grouped_data', completed_ytb_ids')
          /\ mainPc' = after_filter(Len(pending_ytb_ids'))
  /\ UNCHANGED harnessVars
  /\ UNCHANGED <<diskVars, submitted, submitCount, collected,
                 successful_count, failed_count, poolVars, unitVars>>

\* one executor.submit of the dict comprehension
Submit ==
  /\ mainPc = "submit"
  /\ submitted < total_pending
  /\ LET u == pending_ytb_ids[submitted + 1]
     IN /\ queue' = Append(queue, u)
        /\ submitCount' = [submitCount EXCEPT ![u] = @ + 1]
  /\ submitted' = submitted + 1
  /\ mainPc' = IF submitted' = total_pending THEN "collect" ELSE "submit"
  /\ UNCHANGED harnessVars
  /\ UNCHANGED <<diskVars, grouped_data, completed_ytb_ids, fileAtStart,
                 pending_ytb_ids, collected, successful_count, failed_count,
                 worker, lock, result, unitVars>>

\* faulty variant: a future that raised is counted as a success
CollectCounts_excAsSuccess(res) ==
  IF res = "False"
  THEN <<successful_count, failed_count + 1>>
  ELSE <<successful_count + 1, failed_count>>

\* faulty variant: the except branch does not count the group
CollectCounts_dropExc(res) ==
  IF res = "True"
  THEN <<successful_count + 1, failed_count>>
  ELSE IF res = "False"
       THEN <<successful_count, failed_count + 1>>
       ELSE <<successful_count, failed_count>>

\* one iteration of the as_completed loop, on a future that is done
CollectCounts(res) ==
  IF res = "True"
  THEN <<successful_count + 1, failed_count>>
  ELSE IF res = "False"
       THEN <<successful_count, failed_count + 1>>
       ELSE <<successful_count, failed_count + 1>>   \* except Exception

Collect(u) ==
  /\ mainPc = "collect"
  /\ submitCount[u] > 0
  /\ result[u] # "none"
  /\ collected[u] = 0
  /\ collected' = [collected EXCEPT ![u] = @ + 1]
  /\ successful_count' = CollectCounts(result[u])[1]
  /\ failed_count' = CollectCounts(result[u])[2]
  /\ UNCHANGED harnessVars
  /\ UNCHANGED <<diskVars, mainPc, grouped_data, completed_ytb_ids,
                 fileAtStart, pending_ytb_ids, submitted, submitCount,
                 poolVars, unitVars>>

\* lines 428-443: the statistics divide by successful_count + failed_count;
\* a ZeroDivisionError is caught at line 441, logged as fatal and raised again
final_statistics(successful, failed) ==
  IF successful + failed = 0 THEN "fatal" ELSE "done"

\* as_completed is exhausted, the executor shuts down, the statistics are logged
Finish ==
  /\ mainPc = "collect"
  /\ \A u \in Units : submitCount[u] > 0 => collected[u] > 0
  /\ \A w \in Workers : worker[w] = Idle
  /\ mainPc' = final_statistics(successful_count, failed_count)
  /\ UNCHANGED harnessVars
  /\ UNCHANGED <<diskVars, grouped_data, completed_ytb_ids, fileAtStart,
                 pending_ytb_ids, submitted, submitCount, collected,
                 successful_count, failed_count, poolVars, unitVars>>

\* ---- the executor ----------------------------------------------------------
\* a worker thread takes the next work item and calls process_ytb_id
WorkerTake(w) ==
  /\ worker[w] = Idle
  /\ queue # <<>>
  /\ worker' = [worker EXCEPT ![w] = Head(queue)]
  /\ queue' = Tail(queue)
  /\ pc' = [pc EXCEPT ![Head(queue)] = "download"]
  /\ UNCHANGED harnessVars
  /\ UNCHANGED <<diskVars, mainVars, lock, result, dl, processed_files,
                 moved_files, all_success, trLog, upLog, cleaned>>

\* the worker thread that ran u is free again
Release(u) == [w \in Workers |-> IF worker[w] = u THEN Idle ELSE worker[w]]

\* ---- process_ytb_id --------------------------------------------------------
\* one more thing goes wrong, as long as the bound allows it
Fault(wrong) ==
  /\ wrong => faults < MaxFaults
  /\ faults' = IF wrong THEN faults + 1 ELSE faults

\* what a shell command run by run_command can do: exit 0, exit non-zero
\* (CalledProcessError, caught), or make subprocess.run raise something else
\* (OSError, UnicodeDecodeError), which run_command does not catch
CmdOutcomes == {"ok", "fail", "raise"}

\* faulty variant: the file is not looked for after yt-dlp returned
download_noExistsCheck(existed, outcome, existsAfter) ==
  IF existed THEN TRUE ELSE outcome = "ok"

\* download(): True when the file is already there; otherwise run yt-dlp and
\* return True only when it exited 0 and the file exists afterwards
download(existed, outcome, existsAfter) ==
  IF existed THEN TRUE
  ELSE IF outcome # "ok" THEN FALSE
       ELSE existsAfter

\* what happened in the download call
DownloadMet(existed, outcome, existsAfter) ==
  IF existed THEN "exists"
  ELSE IF outcome = "raise" THEN "raised"
  ELSE IF outcome = "fail" THEN "cmdfail"
  ELSE IF existsAfter THEN "ok" ELSE "absent"

\* line 289: the download call and the early return on failure
Download(u) ==
  /\ pc[u] = "download"
  /\ \E outcome \in (IF u \in raw_files THEN {"ok"} ELSE CmdOutcomes),
        existsAfter \in (IF u \in raw_files THEN {TRUE} ELSE BOOLEAN) :
       /\ Fault(~(u \in raw_files \/ (outcome = "ok" /\ existsAfter)))
       /\ raw_files' = IF existsAfter THEN raw_files \cup {u}
                       ELSE raw_files \ {u}
       /\ dl' = [dl EXCEPT ![u] = DownloadMet(u \in raw_files, outcome,
                                                existsAfter)]
       /\ IF outcome = "raise"
          THEN /\ pc' = [pc EXCEPT ![u] = "raised"]
               /\ result' = [result EXCEPT ![u] = "exc"]
               /\ worker' = Release(u)
          ELSE IF download(u \in raw_files, outcome, existsAfter)
               THEN /\ pc' = [pc EXCEPT ![u] = "transform"]
                    /\ UNCHANGED <<result, worker>>
               ELSE /\ pc' = [pc EXCEPT ![u] = "returned"]
                    /\ result' = [result EXCEPT ![u] = "False"]
                    /\ worker' = Release(u)
  /\ UNCHANGED harnessVars
  /\ UNCHANGED <<manifest, progress_file, local_files, run, uploadedInFailed,
                 mainVars, queue, lock, processed_files, moved_files,
                 all_success, trLog, upLog, cleaned>>

\* process_ffmpeg(): the output path when ffmpeg exited 0 and the output file
\* exists, None otherwise (every exception inside is caught and gives None)
process_ffmpeg(success, existsAfter) == success /\ existsAfter

\* faulty variant: a failed step leaves all_success as it was
all_success_after_kept(all_success_before, stepOk) == all_success_before

\* lines 306-310 and 318-321: a failed step clears all_success
all_success_after(all_success_before, stepOk) == all_success_before /\ stepOk

\* faulty variant: the loop stops at the first clip that fails
after_transform_break(i, n, processed_path) ==
  IF i = n \/ ~processed_path THEN "move_raw" ELSE "transform"

\* the for loop of lines 297-310 goes through the whole list
after_transform(i, n, processed_path) ==
  IF i = n THEN "move_raw" ELSE "transform"

\* lines 297-310: one iteration of the loop over video_data_list
Transform(u) ==
  /\ pc[u] = "transform"
  /\ LET i == Len(trLog[u]) + 1
         clip == video_data_list(u)[i].save_name
     IN \E success \in BOOLEAN, existsAfter \in BOOLEAN :
          LET processed_path == process_ffmpeg(success, existsAfter)
          IN /\ Fault(~(success /\ existsAfter))
             /\ local_files' = IF existsAfter THEN local_files \cup {clip}
                               ELSE local_files \ {clip}
             /\ trLog' = [trLog EXCEPT ![u] =
                          Append(@, <<clip, processed_path>>)]
             /\ processed_files' =
                  IF processed_path
                  THEN [processed_files EXCEPT ![u] = Append(@, clip)]
                  ELSE processed_files
             /\ all_success' = [all_success EXCEPT ![u] =
                                  all_success_after(@, processed_path)]
             /\ pc' = [pc EXCEPT ![u] =
                         after_transform(i, Len(video_data_list(u)),
                                         processed_path)]
  /\ UNCHANGED harnessVars
  /\ UNCHANGED <<manifest, progress_file, raw_files, run, uploadedInFailed,
                 mainVars, poolVars, dl, moved_files, upLog, cleaned>>

\* line 313: the raw file is moved to Dropbox, the result is ignored
\* faulty variant: a raw move that failed clears all_success
all_success_after_raw_counted(all, moved) == all /\ moved

\* line 313: the value move_to_dropbox returns for the raw file is dropped
all_success_after_raw(all, moved) == all

MoveRaw(u) ==
  /\ pc[u] = "move_raw"
  /\ \E outcome \in CmdOutcomes :
       /\ Fault(outcome # "ok")
       /\ raw_files' = IF outcome = "ok" THEN raw_files \ {u} ELSE raw_files
       /\ IF outcome = "raise"
          THEN /\ pc' = [pc EXCEPT ![u] = "raised"]
               /\ result' = [result EXCEPT ![u] = "exc"]
               /\ worker' = Release(u)
               /\ UNCHANGED all_success
          ELSE /\ pc' = [pc EXCEPT ![u] =
                           IF processed_files[u] = <<>> THEN "cleanup"
                           ELSE "upload"]
               /\ all_success' = [all_success EXCEPT ![u] =
                                    all_success_after_raw(@, outcome = "ok")]
               /\ UNCHANGED <<result, worker>>
  /\ UNCHANGED harnessVars
  /\ UNCHANGED <<manifest, progress_file, local_files, run, uploadedInFailed,
                 mainVars, queue, lock, dl, processed_files, moved_files,
                 trLog, upLog, cleaned>>

\* faulty variant: the loop stops at the first move that fails
after_upload_break(j, n, moved) ==
  IF j = n \/ ~moved THEN "cleanup" ELSE "upload"

\* faulty variant: cleanup starts after the first move
after_upload_first(j, n, moved) == "cleanup"

\* the for loop of lines 317-321 goes through the whole list
after_upload(j, n, moved) ==
  IF j = n THEN "cleanup" ELSE "upload"

\* lines 317-321: one iteration of the loop over processed_files
Upload(u) ==
  /\ pc[u] = "upload"
  /\ LET j == Len(upLog[u]) + 1
         clip == processed_files[u][j]
     IN \E outcome \in CmdOutcomes :
          /\ Fault(outcome # "ok")
          /\ upLog' = [upLog EXCEPT ![u] = Append(@, <<clip, outcome = "ok">>)]
          /\ local_files' = IF outcome = "ok" THEN local_files \ {clip}
                            ELSE local_files
          /\ IF outcome = "raise"
             THEN /\ pc' = [pc EXCEPT ![u] = "raised"]
                  /\ result' = [result EXCEPT ![u] = "exc"]
                  /\ worker' = Release(u)
                  /\ UNCHANGED <<moved_files, all_success>>
             ELSE /\ moved_files' =
                       IF outcome = "ok"
                       THEN [moved_files EXCEPT ![u] = Append(@, clip)]
                       ELSE moved_files
                  /\ all_success' = [all_success EXCEPT ![u] =
                                       all_success_after(@, outcome = "ok")]
                  /\ pc' = [pc EXCEPT ![u] =
                              after_upload(j, Len(processed_files[u]),
                                           outcome = "ok")]
                  /\ UNCHANGED <<result, worker>>
  /\ UNCHANGED harnessVars
  /\ UNCHANGED <<manifest, progress_file, raw_files, run, uploadedInFailed,
                 mainVars, queue, lock, dl, processed_files, trLog, cleaned>>

\* cleanup_files(): every path that exists is removed, unless os.remove raises
\* for it (failing); the files left of those that existed
cleanup_files(existing, paths, failing) == existing \ (paths \ failing)

\* faulty variant: every processed clip is handed to cleanup_files
cleanup_args_processed(moved, processed) == Range(processed)

\* line 324: the clips handed to cleanup_files are those of moved_files
cleanup_args(moved, processed) == Range(moved)

\* faulty variant: mark_completed is called whatever all_success is
should_mark_always(all_success_u) == TRUE

\* line 326: mark_completed is called only when all_success
should_mark(all_success_u) == all_success_u

\* lines 324-332: cleanup of the raw file and of the moved clips, then either
\* go on to mark_completed or return False
Cleanup(u) ==
  /\ pc[u] = "cleanup"
  /\ LET clips == cleanup_args(moved_files[u], processed_files[u])
     IN \E rawFailing \in SUBSET ({u} \cap raw_files),
           clipsFailing \in SUBSET (clips \cap local_files) :
          /\ Fault(rawFailing \cup clipsFailing # {})
          /\ raw_files' = cleanup_files(raw_files, {u}, rawFailing)
          /\ local_files' = cleanup_files(local_files, clips, clipsFailing)
          /\ cleaned' = [cleaned EXCEPT ![u] =
                           [called |-> TRUE, raw |-> TRUE, clips |-> clips,
                            failed |-> rawFailing \cup clipsFailing]]
  /\ IF should_mark(all_success[u])
     THEN /\ pc' = [pc EXCEPT ![u] = "mark"]
          /\ UNCHANGED <<result, worker>>
     ELSE /\ pc' = [pc EXCEPT ![u] = "returned"]
          /\ result' = [result EXCEPT ![u] = "False"]
          /\ worker' = Release(u)
  /\ UNCHANGED harnessVars
  /\ UNCHANGED <<manifest, progress_file, run, uploadedInFailed, mainVars,
                 queue, lock, dl, processed_files, moved_files, all_success,
                 trLog, upLog>>

\* mark_completed, line 198: the test under the lock
mark_needed(completed, ytb_id) == ytb_id \notin completed

\* mark_completed, line 199
mark_add(completed, ytb_id) == completed \cup {ytb_id}

\* mark_completed, line 201: the line written
mark_line(ytb_id) == ytb_id \o <<NL>>

\* mark_completed, lines 197-199: take the lock, test and add to the set
MarkBegin(u) ==
  /\ pc[u] = "mark"
  /\ lock = Idle
  /\ IF mark_needed(completed_ytb_ids, u)
     THEN /\ completed_ytb_ids' = mark_add(completed_ytb_ids, u)
          /\ lock' = u
          /\ pc' = [pc EXCEPT ![u] = "mark_write"]
          /\ UNCHANGED <<result, worker>>
     ELSE /\ completed_ytb_ids' = completed_ytb_ids
          /\ lock' = Idle
          /\ pc' = [pc EXCEPT ![u] = "returned"]
          /\ result' = [result EXCEPT ![u] = "True"]
          /\ worker' = Release(u)
  /\ UNCHANGED harnessVars
  /\ UNCHANGED <<diskVars, mainPc, grouped_data, fileAtStart,
                 pending_ytb_ids, submitted,
                 submitCount, collected, successful_count, failed_count,
                 queue, dl, processed_files, moved_files, all_success,
                 trLog, upLog, cleaned>>

\* mark_completed, lines 200-201: append the line, release the lock and
\* return True from process_ytb_id; or open/write raises, the lock is
\* released and the exception leaves process_ytb_id
MarkWrite(u) ==
  /\ pc[u] = "mark_write"
  /\ lock = u
  /\ \E written \in BOOLEAN :
       /\ Fault(~written)
       /\ IF written
          THEN /\ progress_file' = Append(progress_file, mark_line(u))
               /\ pc' = [pc EXCEPT ![u] = "returned"]
               /\ result' = [result EXCEPT ![u] = "True"]
          ELSE /\ progress_file' = progress_file
               /\ pc' = [pc EXCEPT ![u] = "raised"]
               /\ result' = [result EXCEPT ![u] = "exc"]
  /\ lock' = Idle
  /\ worker' = Release(u)
  /\ UNCHANGED harnessVars
  /\ UNCHANGED <<manifest, raw_files, local_files, run, uploadedInFailed,
                 mainVars, queue, dl, processed_files, moved_files,
                 all_success, trLog, upLog, cleaned>>

\* ---- a new run over the same disk -------------------------------------------
\* clips that this run uploaded in a group that returned False after a
\* transform failure
UploadedInFailedNow ==
  UNION {{e[1] : e \in {x \in Range(upLog[u]) : x[2]}} :
           u \in {v \in Units : /\ pc[v] = "returned"
                                /\ \E t \in Range(trLog[v]) : ~t[2]}}

\* the process is killed or has finished, and the script is started again:
\* memory is lost, the files stay
Restart ==
  /\ run < MaxRuns
  /\ run' = run + 1
  /\ uploadedInFailed' = UploadedInFailedNow
  /\ UNCHANGED harnessVars
  /\ UNCHANGED <<manifest, progress_file, raw_files, local_files, faults>>
  /\ mainPc' = "start"
  /\ grouped_data' = NoData
  /\ completed_ytb_ids' = {}
  /\ fileAtStart' = <<>>
  /\ pending_ytb_ids' = <<>>
  /\ submitted' = 0
  /\ submitCount' = [u \in Units |-> 0]
  /\ collected' = [u \in Units |-> 0]
  /\ successful_count' = 0
  /\ failed_count' = 0
  /\ queue' = <<>>
  /\ worker' = [w \in Workers |-> Idle]
  /\ lock' = Idle
  /\ result' = [u \in Units |-> "none"]
  /\ pc' = [u \in Units |-> "pending"]
  /\ dl' = [u \in Units |-> "none"]
  /\ processed_files' = [u \in Units |-> <<>>]
  /\ moved_files' = [u \in Units |-> <<>>]
  /\ all_success' = [u \in Units |-> TRUE]
  /\ trLog' = [u \in Units |-> <<>>]
  /\ upLog' = [u \in Units |-> <<>>]
  /\ cleaned' = [u \in Units |-> NoCleanup]

\* the steps of one run
NextRun ==
  \/ Startup
  \/ Submit
  \/ \E u \in Units : Collect(u)
  \/ Finish
  \/ \E w \in Workers : WorkerTake(w)
  \/ \E u \in Units : Download(u)
  \/ \E u \in Units : Transform(u)
  \/ \E u \in Units : MoveRaw(u)
  \/ \E u \in Units : Upload(u)
  \/ \E u \in Units : Cleanup(u)
  \/ \E u \in Units : MarkBegin(u)
  \/ \E u \in Units : MarkWrite(u)

Next ==
  \/ NextRun
  \/ Restart

\* runs of the script over one disk, each of which may be killed at any point
Spec == Init /\ [][Next]_vars

\* one run of the script, over more groups than worker threads
SpecPool == InitPool /\ [][NextRun]_vars

\* Ctrl-C while the executor is open: KeyboardInterrupt is raised in the main
\* thread inside the with block (it is not an Exception, so the except of
\* line 420 does not take it) and the with statement calls
\* executor.shutdown(wait=True), which cancels nothing
Interrupt ==
  /\ mainPc \in {"submit", "collect"}
  /\ mainPc' = "stopping"
  /\ UNCHANGED harnessVars
  /\ UNCHANGED <<diskVars, grouped_data, completed_ytb_ids, fileAtStart,
                 pending_ytb_ids, submitted, submitCount, collected,
                 successful_count, failed_count, poolVars, unitVars>>

\* shutdown(wait=True) returns when the worker threads have ended, which
\* they do when the queue is empty; KeyboardInterrupt then leaves the script
Shutdown ==
  /\ mainPc = "stopping"
  /\ queue = <<>>
  /\ \A w \in Workers : worker[w] = Idle
  /\ mainPc' = "interrupted"
  /\ UNCHANGED harnessVars
  /\ UNCHANGED <<diskVars, grouped_data, completed_ytb_ids, fileAtStart,
                 pending_ytb_ids, submitted, submitCount, collected,
                 successful_count, failed_count, poolVars, unitVars>>

NextStop ==
  \/ NextRun
  \/ Interrupt
  \/ Shutdown

\* one run of the script that the user may interrupt
SpecStop == InitPool /\ [][NextStop]_vars

\* the manifests of up to NumRecords records over NumKeys ytb_ids, in each
\* record at most one field missing
Manifests ==
  UNION {[1..n -> {[save_name |-> 0, ytb_id |-> k, has |-> h] :
                     k \in {KeyOf(j) : j \in 1..NumKeys},
                     h \in {RequiredFields} \cup
                           {RequiredFields \ {f} : f \in RequiredFields}}]
           : n \in 1..NumRecords}

InitLoad ==
  /\ manifest \in {[i \in DOMAIN m |-> [m[i] EXCEPT !.save_name = i]] :
                     m \in Manifests}
  /\ EmptyDisk
  /\ FreshMain
  /\ NoCallers
  /\ NoCommand
  /\ NoMerge

\* one run of the script over any manifest
SpecLoad == InitLoad /\ [][NextRun]_vars

\* ---- mark_completed called by several threads on one tracker ---------------
ThreadName(t) == <<"T", Chars[t]>>
PipelineIdle ==
  UNCHANGED <<manifest, raw_files, local_files, run, uploadedInFailed,
              mainPc, grouped_data, fileAtStart, pending_ytb_ids, submitted,
              submitCount, collected, successful_count, failed_count,
              queue, worker, result, unitVars, ffmpegVars, mergeVars>>

\* thread t calls progress_tracker.mark_completed(k)
ThreadCall(t, k) ==
  /\ caller[t] = NoCall
  /\ calls < MaxCalls
  /\ calls' = calls + 1
  /\ caller' = [caller EXCEPT ![t] = [key |-> k, at |-> "lock"]]
  /\ UNCHANGED <<progress_file, faults, completed_ytb_ids, lock, normal>>
  /\ PipelineIdle

\* lines 197-199: take the lock, test, add to the set; when the key is in
\* the set the with block ends and the call returns
ThreadMarkBegin(t) ==
  /\ caller[t].at = "lock"
  /\ lock = Idle
  /\ LET k == caller[t].key
     IN IF mark_needed(completed_ytb_ids, k)
        THEN /\ completed_ytb_ids' = mark_add(completed_ytb_ids, k)
             /\ lock' = ThreadName(t)
             /\ caller' = [caller EXCEPT ![t].at = "write"]
             /\ normal' = normal
        ELSE /\ completed_ytb_ids' = completed_ytb_ids
             /\ lock' = Idle
             /\ caller' = [caller EXCEPT ![t] = NoCall]
             /\ normal' = normal \cup {k}
  /\ UNCHANGED <<progress_file, faults, calls>>
  /\ PipelineIdle

\* lines 200-201: append the line and return, or open/write raises; the with
\* statement releases the lock either way
ThreadMarkWrite(t) ==
  /\ caller[t].at = "write"
  /\ lock = ThreadName(t)
  /\ LET k == caller[t].key
     IN \E written \in BOOLEAN :
          /\ Fault(~written)
          /\ progress_file' = IF written
                              THEN Append(progress_file, mark_line(k))
                              ELSE progress_file
          /\ normal' = IF written THEN normal \cup {k} ELSE normal
  /\ lock' = Idle
  /\ caller' = [caller EXCEPT ![t] = NoCall]
  /\ UNCHANGED <<completed_ytb_ids, calls>>
  /\ PipelineIdle

NextMark ==
  \/ \E t \in Workers, k \in ManifestKeys : ThreadCall(t, k)
  \/ \E t \in Workers : ThreadMarkBegin(t)
  \/ \E t \in Workers : ThreadMarkWrite(t)

\* threads calling mark_completed on a tracker made over an empty progress.txt
SpecMark == Init /\ [][NextMark]_vars

\* ---- process_ffmpeg: the arguments of the ffmpeg command --------------------
\* Normalised coordinates are counted in hundredths, times in hundredths of
\* a second.
One == 100
Ratio == 2

Abs(x) == IF x < 0 THEN 0 - x ELSE x

\* expand(): the margin is added on each side and clamped to [0, 1]
expand(b, ratio) ==
  <<Max(b[1] - ratio, 0), Min(b[2] + ratio, One),
    Max(b[3] - ratio, 0), Min(b[4] + ratio, One)>>

\* round(): the nearest integer to num/den, a tie going to the even one
round(num, den) ==
  LET q == num \div den
      r == num % den
  IN IF 2 * r < den THEN q
     ELSE IF 2 * r > den THEN q + 1
     ELSE IF q % 2 = 0 THEN q ELSE q + 1

\* faulty variant: height and width are taken for each other
denorm_swapped(b, h, w) ==
  <<round(b[1] * w, One), round(b[2] * w, One),
    round(b[3] * h, One), round(b[4] * h, One)>>

\* denorm(): to pixels
denorm(b, h, w) ==
  <<round(b[1] * h, One), round(b[2] * h, One),
    round(b[3] * w, One), round(b[4] * w, One)>>

\* faulty variant: the side is the larger of the two spans
to_square_max(b) ==
  LET h == b[2] - b[1]
      w == b[4] - b[3]
      c2 == Max(h, w)
  IN <<(b[1] + b[2]) - c2, (b[1] + b[2]) + c2,
       (b[3] + b[4]) - c2, (b[3] + b[4]) + c2>>

\* to_square(): c = min(h, w) / 2 around the centre ((top + bottom) / 2,
\* (left + right) / 2); the result is given in halves of the unit of b, so
\* that the divisions by 2 are exact
to_square(b) ==
  LET h == b[2] - b[1]
      w == b[4] - b[3]
      c2 == Min(h, w)
  IN <<(b[1] + b[2]) - c2, (b[1] + b[2]) + c2,
       (b[3] + b[4]) - c2, (b[3] + b[4]) + c2>>

\* floor(log2(num / den)) for num > 0
RECURSIVE FloorLog2(_, _)
FloorLog2(num, den) ==
  IF num >= 2 * den THEN FloorLog2(num, 2 * den) + 1
  ELSE IF num < den THEN FloorLog2(2 * num, den) - 1
  ELSE 0

RECURSIVE Pow2(_)
Pow2(k) == IF k = 0 THEN 1 ELSE 2 * Pow2(k - 1)

\* 2^t modulo m
RECURSIVE Pow2Mod(_, _)
Pow2Mod(t, m) == IF t = 0 THEN 1 % m ELSE (2 * Pow2Mod(t - 1, m)) % m

\* int((secs - int(secs)) * 100) for the double secs nearest to cs / 100.
\* With c = cs mod 100 and e = floor(log2(cs / 100)), the double is
\* cs / 100 rounded to a multiple of 2^(e - 52): r is the remainder of
\* cs * 2^(52 - e) by 100 and the double lies r * 2^(e - 52) / 100 below
\* cs / 100 when it was rounded down. The subtraction is exact, and the
\* product by 100 falls short of c by r * 2^(e - 52); it is rounded to a
\* double below c, and then truncated to c - 1, when that is more than half
\* the distance from c to the double before it.
int_end(cs) ==
  LET c == cs % 100
  IN IF c = 0 THEN 0
     ELSE LET e == FloorLog2(cs, 100)
              R == ((cs % 200) * Pow2Mod(52 - e, 200)) % 200
              r == R % 100
              down == (0 < r /\ r < 50) \/ (r = 50 /\ R < 100)
              ec == FloorLog2(c, 1)
              k == e - ec + 1 + (IF c = Pow2(ec) THEN 1 ELSE 0)
              below == IF k >= 0 THEN r * Pow2(k) > 1 ELSE r > Pow2(0 - k)
          IN IF down /\ below THEN c - 1 ELSE c

\* "{:02d}".format(n): at least two digits
Format02d(n) == IF n < 10 THEN <<"0", Digit(n)>> ELSE Decimal(n)

\* secs_to_timestr(cs / 100)
secs_to_timestr(cs) ==
  LET secs == cs \div 100
      hrs == secs \div (60 * 60)
      min == (secs - hrs * 3600) \div 60
      sec == secs % 60
  IN Format02d(hrs) \o <<":">> \o Format02d(min) \o <<":">> \o
     Format02d(sec) \o <<".">> \o Format02d(int_end(cs))

Coords == {(i * One) \div GridSteps : i \in 0..GridSteps}
Boxes ==
  {b \in Coords \X Coords \X Coords \X Coords : b[1] < b[2] /\ b[3] < b[4]}
\* frame sides are multiples of 4: no coordinate in hundredths times such a
\* side lies half-way between two pixels, where the rounding error of the
\* double product would decide
Sides == {4 * i : i \in 1..MaxSide}

InitFfmpeg ==
  /\ manifest = ManifestOf(NumRecords, NumKeys)
  /\ EmptyDisk
  /\ FreshMain
  /\ NoCallers
  /\ bbox \in Boxes
  /\ height \in Sides
  /\ width \in Sides
  /\ start_sec \in 0..MaxCs
  /\ crop = <<>>
  /\ ss = <<>>
  /\ NoMerge

\* lines 128-131: the crop and the -ss argument of the ffmpeg command
BuildCommand ==
  /\ crop = <<>>
  /\ crop' = to_square(denorm(expand(bbox, Ratio), height, width))
  /\ ss' = secs_to_timestr(start_sec)
  /\ UNCHANGED <<bbox, height, width, start_sec, markVars, mergeVars,
                 diskVars, mainVars, poolVars, unitVars>>

NextFfmpeg == BuildCommand

\* process_ffmpeg builds its command for one clip of any bbox and start time
SpecFfmpeg == InitFfmpeg /\ [][NextFfmpeg]_vars

\* ---- merge_video.py -----------------------------------------------------------
\* load_progress of merge_video: the stripped non-empty lines of progress.txt
merge_load_progress(lines) ==
  {strip(lines[j]) : j \in {i \in 1..Len(lines) : strip(lines[i]) # <<>>}}

\* the names of a sequence that are not in a set, in the order of the sequence
RECURSIVE NotIn(_, _)
NotIn(seq, set) ==
  IF seq = <<>> THEN <<>>
  ELSE IF Head(seq) \in set THEN NotIn(Tail(seq), set)
  ELSE <<Head(seq)>> \o NotIn(Tail(seq), set)

\* save_progress: the file is written anew, one line per name, sorted (the
\* names have the same length, their order is the order of their numbers)
RECURSIVE SortedLines(_, _)
SortedLines(files, i) ==
  IF i > FirstTar + NumTars - 1 THEN <<>>
  ELSE IF TarName(i) \in files
       THEN <<TarName(i) \o <<NL>>>> \o SortedLines(files, i + 1)
       ELSE SortedLines(files, i + 1)

save_progress(files) == SortedLines(files, FirstTar)

\* what ffmpeg and the audio directory can make of one .mp4
Mp4Outcomes == {"merged", "skipped", "failed"}
merged_count(outcomes) ==
  Cardinality({m \in DOMAIN outcomes : outcomes[m] = "merged"})

\* process_tar_file: False when an exception was caught at line 148 (from
\* the directories or the extraction, from rclone move, which is run only
\* when merged_count > 0, or from os.remove), True otherwise
process_tar_file(extracted, outcomes, moveOk, removeOk) ==
  /\ extracted
  /\ merged_count(outcomes) > 0 => moveOk
  /\ removeOk

MergeIdle ==
  UNCHANGED <<diskVars, mainVars, poolVars, unitVars, markVars, ffmpegVars>>

tar_filename == remaining_files[tar_pos]

\* the for loop of line 171 goes to its next name, or ends
NextTar == IF tar_pos = Len(remaining_files) THEN "done" ELSE "copy"

\* main(), lines 161-169
MergeStart ==
  /\ merge_pc = "start"
  /\ completed_files' = merge_load_progress(merge_progress)
  /\ remaining_files' = NotIn(tar_files, completed_files')
  /\ tar_pos' = 1
  /\ merge_pc' = IF remaining_files' = <<>> THEN "done" ELSE "copy"
  /\ UNCHANGED <<merge_progress, tarLog>>
  /\ MergeIdle

\* copy_from_gdrive: rclone copy exits 0, or exits non-zero (the tar is
\* skipped), or subprocess.run raises something else, which ends main()
CopyFromGdrive ==
  /\ merge_pc = "copy"
  /\ \E outcome \in CmdOutcomes :
       /\ tarLog' = [tarLog EXCEPT ![tar_filename].copied = (outcome = "ok")]
       /\ merge_pc' = IF outcome = "ok" THEN "process"
                      ELSE IF outcome = "fail" THEN NextTar
                      ELSE "crashed"
       /\ tar_pos' = IF outcome = "fail" /\ NextTar = "copy"
                     THEN tar_pos + 1 ELSE tar_pos
  /\ UNCHANGED <<merge_progress, completed_files, remaining_files>>
  /\ MergeIdle

\* process_tar_file and lines 180-185 of main()
ProcessTarFile ==
  /\ merge_pc = "process"
  /\ \E extracted \in BOOLEAN, moveOk \in BOOLEAN, removeOk \in BOOLEAN,
        outs \in [Mp4s -> Mp4Outcomes] :
       LET outcomes == IF extracted THEN outs ELSE <<>>
           moveRun == extracted /\ merged_count(outcomes) > 0
           success == process_tar_file(extracted, outcomes, moveOk, removeOk)
       IN /\ ~extracted => (moveOk /\ removeOk /\ outs = [m \in Mp4s |-> "merged"])
          /\ ~moveRun => moveOk
          /\ (moveRun /\ ~moveOk) => removeOk
          /\ tarLog' = [tarLog EXCEPT ![tar_filename] =
                          [copied |-> TRUE, extracted |-> extracted,
                           outcomes |-> outcomes,
                           moved |-> moveRun /\ moveOk,
                           returned |-> IF success THEN "True" ELSE "False"]]
          /\ IF success
             THEN /\ completed_files' = completed_files \cup {tar_filename}
                  /\ merge_pc' = "save"
                  /\ tar_pos' = tar_pos
             ELSE /\ completed_files' = completed_files
                  /\ merge_pc' = NextTar
                  /\ tar_pos' = IF NextTar = "copy" THEN tar_pos + 1
                                ELSE tar_pos
  /\ UNCHANGED <<merge_progress, remaining_files>>
  /\ MergeIdle

\* save_progress(completed_files) at line 182; when open or write raises the
\* file is as it was or cut short, and the exception ends main()
SaveProgress ==
  /\ merge_pc = "save"
  /\ \/ /\ merge_progress' = save_progress(completed_files)
        /\ merge_pc' = NextTar
        /\ tar_pos' = IF NextTar = "copy" THEN tar_pos + 1 ELSE tar_pos
     \/ /\ merge_progress' \in {merge_progress, <<>>}
        /\ merge_pc' = "crashed"
        /\ tar_pos' = tar_pos
  /\ UNCHANGED <<completed_files, remaining_files, tarLog>>
  /\ MergeIdle

NextMerge ==
  \/ MergeStart
  \/ CopyFromGdrive
  \/ ProcessTarFile
  \/ SaveProgress

\* merge_video is started over the progress.txt of an earlier run
InitMerge ==
  /\ manifest = ManifestOf(NumRecords, NumKeys)
  /\ EmptyDisk
  /\ FreshMain
  /\ NoCallers
  /\ NoCommand
  /\ merge_pc = "start"
  /\ merge_progress \in {<<>>, save_progress({TarName(FirstTar)})}
  /\ completed_files = {}
  /\ remaining_files = <<>>
  /\ tar_pos = 0
  /\ tarLog = [t \in Tars |-> NoTarLog]

SpecMerge == InitMerge /\ [][NextMerge]_vars

\* ---- properties -------------------------------------------------------------
Loaded == mainPc # "start"
ManifestUnits == Range(grouped_data.keys)
ClipsOf(u) ==
  {video_data_list(u)[i].save_name : i \in 1..Len(video_data_list(u))}
OkOf(log) == {e[1] : e \in {x \in Range(log) : x[2]}}
FailedOf(log) == {e[1] : e \in {x \in Range(log) : ~x[2]}}
DownloadSucceeded(u) == dl[u] \in {"exists", "ok"}
FullySucceeded(u) ==
  /\ DownloadSucceeded(u)
  /\ OkOf(trLog[u]) = ClipsOf(u)
  /\ OkOf(upLog[u]) = ClipsOf(u)
InPipeline(u) ==
  pc[u] \in {"download", "transform", "move_raw", "upload", "cleanup",
             "mark", "mark_write"}

\* the keys that entered the in-memory set or the progress file in this run
AddedThisRun ==
  (completed_ytb_ids \cup load_progress(progress_file))
     \ load_progress(fileAtStart)

\* C1: every key added to the completed set or to the progress file during a
\* run is the key of a group whose download succeeded, whose clips were all
\* transformed and all uploaded; mark_completed is only entered for such a group
C1_LedgerOnlyFullSuccess ==
  Loaded =>
    /\ \A u \in AddedThisRun : u \in ManifestUnits /\ FullySucceeded(u)
    /\ \A u \in ManifestUnits :
         pc[u] \in {"mark", "mark_write"} => FullySucceeded(u)

\* a group of two clips was written to the file while another group failed
C1_Witness ==
  /\ Loaded
  /\ \E u \in ManifestUnits :
       /\ u \in load_progress(progress_file) \ load_progress(fileAtStart)
       /\ Cardinality(ClipsOf(u)) = 2
  /\ \E v \in ManifestUnits : result[v] = "False" /\ FailedOf(upLog[v]) # {}

\* the groups whose line was in the progress file when this run started
RecordedAtStart == {u \in Units : (u \o <<NL>>) \in Range(fileAtStart)}

\* C2: in a run started over the progress file an earlier (possibly killed)
\* run left, no group recorded in that file is dispatched and no stage is
\* called for it; exactly the other groups of the manifest are pending
C2_CompletedNotRedispatched ==
  Loaded =>
    /\ \A u \in RecordedAtStart :
         /\ submitCount[u] = 0
         /\ pc[u] = "pending"
         /\ dl[u] = "none"
         /\ trLog[u] = <<>>
         /\ upLog[u] = <<>>
         /\ ~cleaned[u].called
    /\ Range(pending_ytb_ids) = ManifestUnits \ RecordedAtStart

\* a second run found one group recorded and has processed another one
C2_Witness ==
  /\ run = 2
  /\ Loaded
  /\ RecordedAtStart # {}
  /\ \E v \in ManifestUnits : v \notin RecordedAtStart /\ pc[v] = "returned"

\* C3: at most max_workers groups are inside process_ytb_id at a time; every
\* such group is run by exactly one worker thread, and a worker thread holds
\* no group other than one that is inside process_ytb_id
C3_ConcurrencyBound ==
  /\ Cardinality({u \in Units : InPipeline(u)}) <= MaxWorkers
  /\ \A u \in Units :
       InPipeline(u) => Cardinality({w \in DOMAIN worker : worker[w] = u}) = 1
  /\ \A w \in DOMAIN worker : worker[w] # Idle => InPipeline(worker[w])

\* the pool is full and a group waits in the queue
C3_Witness ==
  /\ Cardinality({u \in Units : InPipeline(u)}) = MaxWorkers
  /\ queue # <<>>

\* C4: every pending group is submitted once, its future is collected at most
\* once, the two counters add up to the number of futures collected, and at
\* the end of the run to total_pending
C4_CountedOnce ==
  /\ \A u \in Units : submitCount[u] <= 1 /\ collected[u] <= 1
  /\ mainPc \in {"collect", "done"} =>
       \A u \in ManifestUnits :
         submitCount[u] = (IF u \in Range(pending_ytb_ids) THEN 1 ELSE 0)
  /\ successful_count + failed_count
       = Cardinality({u \in Units : collected[u] = 1})
  /\ mainPc = "done" => successful_count + failed_count = total_pending

\* a run ended that had a success, a failure and an exception
C4_Witness ==
  /\ mainPc = "done"
  /\ total_pending = PoolUnits
  /\ \E u, v, x \in Units :
       result[u] = "True" /\ result[v] = "False" /\ result[x] = "exc"

\* C5: a group whose pipeline raised (in download, in a move to Dropbox or in
\* mark_completed) is counted as failed once when its future is collected;
\* the run is never stuck before its end, at the end every pending group has
\* run and was collected, and a group that returned has the result of its
\* own steps
C5_ExceptionIsolated ==
  /\ failed_count =
       Cardinality({u \in Units :
                      collected[u] = 1 /\ result[u] \in {"False", "exc"}})
  /\ successful_count =
       Cardinality({u \in Units : collected[u] = 1 /\ result[u] = "True"})
  /\ mainPc \in {"submit", "collect"} => ENABLED NextRun
  /\ mainPc = "done" =>
       \A u \in Range(pending_ytb_ids) :
         result[u] # "none" /\ collected[u] = 1
  /\ \A u \in ManifestUnits :
       pc[u] = "returned" => (result[u] = "True" <=> FullySucceeded(u))

\* the run ended; mark_completed raised for one group, a download raised for
\* another and a third group succeeded
C5_Witness ==
  /\ mainPc = "done"
  /\ \E u, v, x \in Units :
       /\ pc[u] = "raised" /\ u \in completed_ytb_ids
       /\ pc[v] = "raised" /\ dl[v] = "raised"
       /\ result[x] = "True"
  /\ failed_count = 2
  /\ successful_count = 1

\* C6: when yt-dlp fails, or exits 0 without leaving the file, the group ends
\* at once with the result False: no clip is transformed, none is uploaded
\* and the key is not added to the completed set or the progress file
C6_DownloadFailureSkipsAll ==
  \A u \in Units :
    dl[u] \in {"cmdfail", "absent"} =>
      /\ pc[u] = "returned"
      /\ result[u] = "False"
      /\ trLog[u] = <<>>
      /\ upLog[u] = <<>>
      /\ u \notin AddedThisRun

\* the run ended with one group whose yt-dlp failed and one whose file was
\* absent after yt-dlp exited 0
C6_Witness ==
  /\ mainPc = "done"
  /\ \E u, v \in Units : dl[u] = "cmdfail" /\ dl[v] = "absent"

\* the clips of the process_ffmpeg (move_to_dropbox) calls, in call order
CallsOf(log) == [j \in 1..Len(log) |-> log[j][1]]
ClipSeqOf(u) ==
  [j \in 1..Len(video_data_list(u)) |-> video_data_list(u)[j].save_name]
IsPrefix(a, b) == Len(a) <= Len(b) /\ a = SubSeq(b, 1, Len(a))

\* C7: after a successful download the clips of the group are transformed in
\* manifest order, each once, and all of them whatever the results of the
\* earlier ones; a failed transform keeps the group from being marked
C7_EveryClipTransformedOnce ==
  Loaded =>
    \A u \in ManifestUnits :
      /\ IsPrefix(CallsOf(trLog[u]), ClipSeqOf(u))
      /\ (DownloadSucceeded(u) /\ pc[u] \notin {"download", "transform"})
            => CallsOf(trLog[u]) = ClipSeqOf(u)
      /\ FailedOf(trLog[u]) # {} =>
            ~all_success[u] /\ result[u] # "True"
               /\ pc[u] \notin {"mark", "mark_write"}

\* a group returned whose first transform failed and whose second succeeded
C7_Witness ==
  /\ Loaded
  /\ \E u \in ManifestUnits :
       /\ pc[u] = "returned"
       /\ Len(trLog[u]) = 2
       /\ ~trLog[u][1][2]
       /\ trLog[u][2][2]

\* the clips whose transform succeeded, in call order
OkSeqOf(log) == CallsOf(SelectSeq(log, LAMBDA e : e[2]))

\* C8: the clips moved to Dropbox are the clips whose transform succeeded, in
\* that order, each once; when process_ytb_id gets to cleanup all of them
\* were tried whatever the results of the earlier moves; a failed move keeps
\* the group from being marked
C8_EveryArtifactUploadedOnce ==
  Loaded =>
    \A u \in ManifestUnits :
      /\ IsPrefix(CallsOf(upLog[u]), OkSeqOf(trLog[u]))
      /\ pc[u] \in {"cleanup", "mark", "mark_write"}
            \/ (pc[u] = "returned" /\ DownloadSucceeded(u))
            => CallsOf(upLog[u]) = OkSeqOf(trLog[u])
      /\ FailedOf(upLog[u]) # {} =>
            result[u] # "True" /\ pc[u] \notin {"mark", "mark_write"}

\* a group returned whose first move failed and whose second succeeded
C8_Witness ==
  /\ Loaded
  /\ \E u \in ManifestUnits :
       /\ pc[u] = "returned"
       /\ Len(upLog[u]) = 2
       /\ ~upLog[u][1][2]
       /\ upLog[u][2][2]

\* C9 as stated: a clip that was uploaded by the previous run, in a group
\* that returned False because another transform failed, is not uploaded by
\* the next run
C9_NoSecondUpload ==
  \A u \in Units : OkOf(upLog[u]) \cap uploadedInFailed = {}

\* C9, amended: such a group is not in the progress file, so the next run
\* submits it again and its pipeline runs as a whole: every clip whose
\* transform succeeds in that run is moved to Dropbox again, the clips the
\* previous run uploaded included
C9_RetryIsWholeGroup ==
  Loaded =>
    \A u \in ManifestUnits :
      ClipsOf(u) \cap uploadedInFailed # {} =>
        /\ u \in Range(pending_ytb_ids)
        /\ mainPc \in {"collect", "done"} => submitCount[u] = 1
        /\ pc[u] \in {"cleanup", "mark", "mark_write", "returned"}
              /\ DownloadSucceeded(u)
              => OkOf(trLog[u]) \cap uploadedInFailed
                   \subseteq {e[1] : e \in Range(upLog[u])}

\* the second run has uploaded again a clip the first run had uploaded
C9_Witness ==
  /\ run = 2
  /\ \E u \in Units : OkOf(upLog[u]) \cap uploadedInFailed # {}

\* C10 as stated: whenever process_ytb_id has returned, True or False, the
\* raw file of the group is gone, unless cleanup_files was called for it and
\* os.remove failed
C10_RawRemovedAtEnd ==
  \A u \in Units :
    (pc[u] = "returned" /\ u \in raw_files) =>
      (cleaned[u].called /\ u \in cleaned[u].failed)

\* C11: cleanup_files gets exactly the clips whose move to Dropbox succeeded;
\* a clip whose move failed is still on the local disk when process_ytb_id
\* has returned; an os.remove that fails does not change the result
C11_CleanupOnlyAfterUpload ==
  Loaded =>
    \A u \in ManifestUnits :
      /\ cleaned[u].called =>
           /\ cleaned[u].clips = OkOf(upLog[u])
           /\ cleaned[u].clips \cap FailedOf(upLog[u]) = {}
      /\ pc[u] \in {"returned", "raised"} =>
           FailedOf(upLog[u]) \subseteq local_files
      /\ (pc[u] = "returned" /\ cleaned[u].failed # {}) =>
           (result[u] = "True" <=> FullySucceeded(u))

\* a group returned of whose two clips one was moved and one was not
C11_Witness ==
  /\ Loaded
  /\ \E u \in ManifestUnits :
       /\ pc[u] = "returned"
       /\ cleaned[u].called
       /\ OkOf(upLog[u]) # {}
       /\ FailedOf(upLog[u]) # {}

\* C12: the stages of one group are ordered: no transform before download
\* returned True, no move of a clip before every clip was transformed, no
\* cleanup before every transformed clip was moved, no mark_completed before
\* cleanup; transforms and moves follow the order of video_data_list
C12_StagesInOrder ==
  Loaded =>
    \A u \in ManifestUnits :
      /\ trLog[u] # <<>> => DownloadSucceeded(u)
      /\ IsPrefix(CallsOf(trLog[u]), ClipSeqOf(u))
      /\ upLog[u] # <<>> => CallsOf(trLog[u]) = ClipSeqOf(u)
      /\ IsPrefix(CallsOf(upLog[u]), OkSeqOf(trLog[u]))
      /\ cleaned[u].called =>
           /\ CallsOf(trLog[u]) = ClipSeqOf(u)
           /\ CallsOf(upLog[u]) = OkSeqOf(trLog[u])
      /\ (pc[u] \in {"mark", "mark_write"} \/ u \in AddedThisRun)
           => cleaned[u].called

\* a group of two clips is inside mark_completed
C12_Witness ==
  /\ Loaded
  /\ \E u \in ManifestUnits :
       /\ pc[u] = "mark_write"
       /\ Len(upLog[u]) = 2

\* C14: mark_completed is atomic with respect to failure: whenever no thread
\* is inside mark_completed, every key of the in-memory completed set is a
\* line of the progress file
C14_SetWithinFile ==
  lock = Idle => completed_ytb_ids \subseteq load_progress(progress_file)

\* C15: when every ytb_id of the manifest is a line of progress.txt at the
\* start of a run, the run ends without submitting a group, without calling a
\* stage of any group, without changing progress.txt and without the division
\* of the final statistics
C15_ZeroPendingShortCircuit ==
  (Loaded /\ ManifestUnits \subseteq load_progress(fileAtStart)) =>
    /\ mainPc = "done"
    /\ total_pending = 0
    /\ submitted = 0
    /\ queue = <<>>
    /\ \A u \in Units :
         /\ submitCount[u] = 0
         /\ pc[u] = "pending"
         /\ dl[u] = "none"
         /\ trLog[u] = <<>>
         /\ upLog[u] = <<>>
         /\ ~cleaned[u].called
         /\ result[u] = "none"
    /\ \A w \in Workers : worker[w] = Idle
    /\ successful_count + failed_count = 0
    /\ progress_file = fileAtStart

\* a second run that finds both groups of the manifest in progress.txt
C15_Witness ==
  /\ run = 2
  /\ mainPc = "done"
  /\ ManifestUnits # {}
  /\ ManifestUnits \subseteq load_progress(fileAtStart)
  /\ Len(fileAtStart) = NumKeys

Malformed == \E i \in 1..Len(manifest) : manifest[i].has # RequiredFields
RecordsOf(k) == {i \in 1..Len(manifest) : manifest[i].ytb_id = k}
FirstSeen(k) == CHOOSE i \in RecordsOf(k) : \A j \in RecordsOf(k) : i <= j
RecordNamed(name) ==
  CHOOSE i \in 1..Len(manifest) : manifest[i].save_name = name
PlacesOf(i) ==
  {p \in {<<k, a>> : k \in ManifestUnits, a \in 1..NumRecords + 1} :
     /\ p[2] <= Len(grouped_data.vals[p[1]])
     /\ grouped_data.vals[p[1]][p[2]].save_name = manifest[i].save_name}

\* C16: after load_and_group_data every record of the manifest is one clip of
\* exactly one group, the group of its ytb_id, and there are no other clips;
\* the groups are in the order in which their ytb_id first occurs in the
\* manifest, and the clips of a group are in manifest order
C16_GroupedInOrder ==
  (Loaded /\ mainPc # "fatal") =>
    /\ ManifestUnits = {manifest[i].ytb_id : i \in 1..Len(manifest)}
    /\ DOMAIN grouped_data.vals = ManifestUnits
    /\ \A i \in 1..Len(manifest) :
         /\ Cardinality(PlacesOf(i)) = 1
         /\ \A p \in PlacesOf(i) : p[1] = manifest[i].ytb_id
    /\ \A k \in ManifestUnits :
         Len(grouped_data.vals[k]) = Cardinality(RecordsOf(k))
    /\ \A a, b \in 1..Len(grouped_data.keys) :
         a < b => FirstSeen(grouped_data.keys[a]) < FirstSeen(grouped_data.keys[b])
    /\ \A k \in ManifestUnits :
         \A a, b \in 1..Len(grouped_data.vals[k]) :
           a < b => RecordNamed(grouped_data.vals[k][a].save_name)
                      < RecordNamed(grouped_data.vals[k][b].save_name)

\* a manifest whose second group comes between two clips of the first was
\* loaded
C16_Witness ==
  /\ Loaded
  /\ Len(manifest) = 3
  /\ manifest[1].ytb_id = manifest[3].ytb_id
  /\ manifest[2].ytb_id # manifest[1].ytb_id
  /\ Len(grouped_data.keys) = 2
  /\ Len(grouped_data.vals[manifest[1].ytb_id]) = 2

\* C17: when a record of the manifest lacks a field, loading fails: no group
\* is submitted, no stage of any group is called and progress.txt stays as
\* it was
C17_MalformedRejectsAll ==
  Malformed =>
    /\ mainPc \in {"start", "fatal"}
    /\ grouped_data = NoData
    /\ submitted = 0
    /\ queue = <<>>
    /\ \A u \in Units :
         /\ submitCount[u] = 0
         /\ pc[u] = "pending"
         /\ dl[u] = "none"
         /\ trLog[u] = <<>>
         /\ upLog[u] = <<>>
         /\ ~cleaned[u].called
    /\ completed_ytb_ids = {}
    /\ progress_file = <<>>

\* the run has ended on a manifest whose first record is complete and one of
\* whose later records lacks a field
C17_Witness ==
  /\ mainPc = "fatal"
  /\ Len(manifest) >= 2
  /\ manifest[1].has = RequiredFields
  /\ Malformed

\* C20: once a stop is requested no group that has not started is handed to
\* a worker thread (the groups in flight go on to the end of their pipeline)
C20_NoDispatchAfterStop ==
  [][mainPc = "stopping" =>
       \A u \in Units : pc[u] = "pending" => pc'[u] = "pending"]_vars

LinesOf(k) == {i \in 1..Len(progress_file) : strip(progress_file[i]) = k}

\* C13: mark_completed is idempotent: once a call mark_completed(k) has
\* returned, whatever calls were made before it or beside it, progress.txt
\* has the line k exactly once and the in-memory set contains k
C13_MarkedExactlyOnce ==
  \A k \in normal :
    /\ k \in completed_ytb_ids
    /\ Cardinality(LinesOf(k)) = 1

\* the pixel nearest to the normalised coordinate x (hundredths) on a side s
Nearest(x, s) == CHOOSE p \in 0..s : 2 * Abs(One * p - x * s) <= One
ExpandedBox ==
  <<IF bbox[1] > Ratio THEN bbox[1] - Ratio ELSE 0,
    IF bbox[2] < One - Ratio THEN bbox[2] + Ratio ELSE One,
    IF bbox[3] > Ratio THEN bbox[3] - Ratio ELSE 0,
    IF bbox[4] < One - Ratio THEN bbox[4] + Ratio ELSE One>>
PixelBox ==
  <<Nearest(ExpandedBox[1], height), Nearest(ExpandedBox[2], height),
    Nearest(ExpandedBox[3], width), Nearest(ExpandedBox[4], width)>>

\* C18 as stated: the crop is the expanded region made square in normalised
\* coordinates and then denormalised, each coordinate rounded to a pixel
C18_SquareThenDenorm ==
  crop # <<>> =>
    LET sq == to_square(expand(bbox, Ratio))
    IN crop = <<2 * round(sq[1] * height, 2 * One),
                2 * round(sq[2] * height, 2 * One),
                2 * round(sq[3] * width, 2 * One),
                2 * round(sq[4] * width, 2 * One)>>

\* C18 (amended): the crop is the square, in pixels, around the centre of
\* the pixel rectangle of the expanded region (each coordinate of the
\* expanded region times the frame side, rounded to the nearest integer),
\* with the smaller of the pixel height and width of that rectangle as side
C18_DenormThenSquare ==
  crop # <<>> =>
    LET d == PixelBox
        side == IF d[2] - d[1] < d[4] - d[3] THEN d[2] - d[1] ELSE d[4] - d[3]
    IN /\ crop[2] - crop[1] = 2 * side
       /\ crop[4] - crop[3] = 2 * side
       /\ crop[1] + crop[2] = 2 * (d[1] + d[2])
       /\ crop[3] + crop[4] = 2 * (d[3] + d[4])

\* a crop was computed on a frame that is not square for a region that the
\* margin pushes over two edges and whose pixel rectangle is not square
C18_Witness ==
  /\ crop # <<>>
  /\ height # width
  /\ bbox[1] = 0
  /\ bbox[4] = One
  /\ PixelBox[2] - PixelBox[1] # PixelBox[4] - PixelBox[3]

Pad2(n) == <<Digit(n \div 10), Digit(n % 10)>>

\* C19: for a time of start_sec hundredths of a second, that is s whole
\* seconds, the string is HH:MM:SS.hh with HH = floor(s/3600),
\* MM = floor((s mod 3600)/60), SS = s mod 60 and hh the hundredths, each of
\* two digits
C19_TimestrOfCentiseconds ==
  ss # <<>> =>
    LET s == start_sec \div 100
    IN ss = Pad2(s \div 3600) \o <<":">> \o Pad2((s % 3600) \div 60) \o <<":">>
            \o Pad2(s % 60) \o <<".">> \o Pad2(start_sec % 100)

\* C22: a call of process_ytb_id that returns, returns True exactly when its
\* download succeeded, every clip was transformed and every clip was moved,
\* and exactly then the group was marked completed in this run; whether the
\* raw file was moved and whether cleanup_files could remove the files makes
\* no difference
C22_TrueIffAllStagesSucceeded ==
  Loaded =>
    \A u \in ManifestUnits :
      pc[u] = "returned" =>
        /\ result[u] = "True" <=> FullySucceeded(u)
        /\ result[u] = "True" <=>
             u \in load_progress(progress_file) \ load_progress(fileAtStart)
        /\ result[u] = "True" <=> u \in completed_ytb_ids

\* a group returned True although the move of its raw file failed and
\* cleanup_files could not remove the raw file either
C22_Witness ==
  /\ Loaded
  /\ \E u \in ManifestUnits :
       /\ pc[u] = "returned"
       /\ result[u] = "True"
       /\ u \in cleaned[u].failed
       /\ u \in raw_files

\* C23: the crop is a square (right - left = bottom - top) inside the frame
\* (0 <= top <= bottom <= height, 0 <= left <= right <= width) around the
\* centre of the pixel rectangle of the expanded region
C23_SquareInsideFrame ==
  crop # <<>> =>
    /\ crop[4] - crop[3] = crop[2] - crop[1]
    /\ 0 <= crop[1] /\ crop[1] <= crop[2] /\ crop[2] <= 2 * height
    /\ 0 <= crop[3] /\ crop[3] <= crop[4] /\ crop[4] <= 2 * width
    /\ crop[1] + crop[2] = 2 * (PixelBox[1] + PixelBox[2])
    /\ crop[3] + crop[4] = 2 * (PixelBox[3] + PixelBox[4])

\* the crop of the whole frame, on a frame wider than high
C23_Witness ==
  /\ crop # <<>>
  /\ bbox = <<0, One, 0, One>>
  /\ height < width
  /\ crop[2] - crop[1] = 2 * height

\* the tar was copied and extracted, every .mp4 of it was merged and the
\* merged files were moved
FullyMerged(t) ==
  /\ tarLog[t].copied
  /\ tarLog[t].extracted
  /\ \A m \in DOMAIN tarLog[t].outcomes : tarLog[t].outcomes[m] = "merged"
  /\ tarLog[t].moved

\* C21: a tar name that this run of merge_video added to its set or wrote to
\* progress.txt is the name of a tar that was copied and extracted, all of
\* whose .mp4 files were merged and whose merged files were moved
C21_TarRecordedOnlyFullSuccess ==
  \A t \in Tars :
    (tarLog[t].returned # "none" /\
       (t \in completed_files \/ t \in merge_load_progress(merge_progress)))
      => FullyMerged(t)

====
